---- MODULE Spec2Model ----
(***************************************************************************)
(* A model of ode.h: the scheme registry str2ode, the general stepper      *)
(* macro ODE and the scalar stepper macro ODE1.                            *)
(*                                                                         *)
(* double values are modelled as integers.  Step sizes are multiples of 6, *)
(* so that h/2.0 and h/6.0 are exact; floating-point rounding is not       *)
(* modelled.  Buffers are functions over 0..len-1, as C arrays are.        *)
(***************************************************************************)
EXTENDS Integers, Sequences, FiniteSets, TLC

\* ---------------------------------------------------------------- bounds
MaxN == 2       \* largest system dimension N
MaxLen == 3     \* largest number of time slots n

\* ------------------------------------------------------------ ode.h:7
EULER == 0
HEUN == 1
RKFOUR == 2
UNKNOWN == 3
ode_t == {EULER, HEUN, RKFOUR, UNKNOWN}
\* an ode argument may also hold a value that is no enumerator
OdeArgs == ode_t \cup {4}

\* C strings are sequences of non-zero character codes; the terminating NUL
\* is the code 0 read at any position past the end.
Euler == <<69, 117, 108, 101, 114>>
Heun == <<72, 101, 117, 110>>
RK4 == <<82, 75, 52>>
bogus == <<98, 111, 103, 117, 115>>

tolower(c) == IF c \in 65..90 THEN c + 32 ELSE c
toupper(c) == IF c \in 97..122 THEN c - 32 ELSE c

CharAt(s, i) == IF i \in 1..Len(s) THEN s[i] ELSE 0

RECURSIVE strcasecmpFrom(_, _, _)
strcasecmpFrom(s1, s2, i) ==
    LET c1 == tolower(CharAt(s1, i))
        c2 == tolower(CharAt(s2, i))
    IN  IF c1 # c2 THEN c1 - c2
        ELSE IF c1 = 0 THEN 0
        ELSE strcasecmpFrom(s1, s2, i + 1)

strcasecmpPrefix(s1, s2) ==
    IF \A k \in 1..Len(s2) : tolower(CharAt(s1, k)) = tolower(CharAt(s2, k))
    THEN 0 ELSE 1
strcasecmp(s1, s2) == strcasecmpFrom(s1, s2, 1)

str2ode(s) ==
    IF strcasecmp(s, Euler) = 0 THEN EULER
    ELSE IF strcasecmp(s, Heun) = 0 THEN HEUN
    ELSE IF strcasecmp(s, RK4) = 0 THEN RKFOUR
    ELSE UNKNOWN

\* ------------------------------------------------------- caller's inputs
StepSizes == {-6, 0, 6}          \* h
Params == {-1, 0, 1}             \* the odefun parameter a (a = 0: zero field)
Addresses == {8, 16}             \* where the scalar buffer may be allocated
Slot0Vals == {0, 1}              \* caller-initialised slot 0
PrefillVals == {0, 5}            \* caller's pre-fill of the later slots

\* ouproc of test.c, the vector field of the demonstration program,
\* applied to every component by the N-dimensional odefun.
ouproc(xv, a_) == (0 - a_) * xv
odefun(uv, N_, a_) == [i \in 0..(N_ - 1) |-> ouproc(uv[i], a_)]

\* --------------------------------------------------------------- memory
\* A load through a pointer.  No load of the macros leaves the buffer (C4),
\* so the value given to a position outside it is never used.
Load(buf, i) == IF i \in DOMAIN buf THEN buf[i] ELSE 0
Vec(buf, u_, N_) == [i \in 0..(N_ - 1) |-> Load(buf, u_ + i)]
Slot(k, N_) == {k * N_ + i : i \in 0..(N_ - 1)}
sizeofDouble == 8
Uninit == <<>>
\* a scratch double of the scalar macro, held like an array of one
Dbl(val) == [i \in 0..0 |-> val]
NoScratch == [j \in 1..4 |-> Uninit]

\* ------------------------------------------------- arithmetic of ode.h
h2(h_) == h_ \div 2
h6(h_) == h_ \div 6

AssignOnly(old, rhs) == rhs
AddAssign(old, rhs) == old + rhs

IsCaseAlways(ode_) == TRUE
IsCase(ode_) == ode_ \in {EULER, HEUN, RKFOUR}

\* printf("EULER : "#odefun"\n") and its two siblings; #odefun is the text of
\* the macro argument.
Banner(ode_) ==
    IF ode_ = EULER THEN "EULER : odefun\n"
    ELSE IF ode_ = HEUN THEN "HEUN : odefun\n"
    ELSE "RK4 : odefun\n"

\* number of odefun calls in one pass of the loop body
StagesOneLess(ode_) == IF ode_ = EULER THEN 1 ELSE IF ode_ = HEUN THEN 1 ELSE 3
Stages(ode_) == IF ode_ = EULER THEN 1 ELSE IF ode_ = HEUN THEN 2 ELSE 4

LoopCondOffByOne(u_, N_, n_) == u_ < N_ * n_
LoopCond(u_, N_, n_) == u_ < N_ * (n_ - 1)

Loop1CondOffByOne(u_, n_) == u_ < n_
Loop1Cond(u_, n_) == u_ < n_ - 1

\* step multiplying the previous derivative in the probe before stage j
ProbeStepFull(ode_, j, h_) == h_
ProbeStep(ode_, j, h_) ==
    IF ode_ = HEUN THEN h_
    ELSE IF j = 4 THEN h_ ELSE h2(h_)

RhsNoState(ode_, ui, h_, d) ==
    IF ode_ = EULER THEN h_ * d[1]
    ELSE IF ode_ = HEUN THEN h2(h_) * (d[1] + d[2])
    ELSE h6(h_) * (d[1] + 2 * d[2] + 2 * d[3] + d[4])
Rhs(ode_, ui, h_, d) ==
    IF ode_ = EULER THEN ui + h_ * d[1]
    ELSE IF ode_ = HEUN THEN ui + h2(h_) * (d[1] + d[2])
    ELSE ui + h6(h_) * (d[1] + 2 * d[2] + 2 * d[3] + d[4])

\* The right-hand sides of the scalar macro.  EULER and HEUN add *u, the
\* RKFOUR line adds u, the pointer itself: uref is the pointer as a number,
\* uval the double it points to.
Rhs1(ode_, uref, uval, h_, d) ==
    IF ode_ = EULER THEN uval + h_ * d[1]
    ELSE IF ode_ = HEUN THEN uval + h2(h_) * (d[1] + d[2])
    ELSE uref + h6(h_) * (d[1] + 2 * d[2] + 2 * d[3] + d[4])

\* ---------------------------------------------------------------- state
VARIABLES
    str, solver,            \* str2ode: its argument and its result
    ode, a, N, n, h,        \* arguments of the two macro calls
    x, x1, xaddr,           \* buffer of ODE; buffer of ODE1 and its address
    call, pc,               \* which macro runs, and where in it
    u, udot, v,             \* loop pointer (as an index), derivatives, probe
    xpre, x1pre,            \* the buffers as the caller handed them over
    evals, steps,           \* per call: odefun calls made, time indices visited
    rd, wr,                 \* per call: positions loaded as operands (u[i], *u),
                            \*   positions updated in place by += (u1[i], *(u+1))
    out                     \* what was printed

vars == <<str, solver, ode, a, N, n, h, x, x1, xaddr, call, pc, u, udot, v,
          xpre, x1pre, evals, steps, rd, wr, out>>
args == <<str, solver, ode, a, N, n, h, xaddr, xpre, x1pre>>

Calls == {"ODE", "ODE1"}

\* The buffers a caller hands over: any slot 0, and each later slot either
\* left at zero (calloc) or pre-filled with one noise value.
Buffers(N_, n_) ==
    {[idx \in 0..(N_ * n_ - 1) |->
         IF idx < N_ THEN s0[idx] ELSE pf[idx \div N_]] :
       s0 \in [0..(N_ - 1) -> Slot0Vals],
       pf \in [1..(n_ - 1) -> PrefillVals]}

InitCalls ==
    /\ call = "ODE" /\ pc = "switch"
    /\ u = 0 /\ udot = NoScratch /\ v = Uninit
    /\ evals = [c \in Calls |-> 0]
    /\ steps = [c \in Calls |-> <<>>]
    /\ rd = [c \in Calls |-> {}]
    /\ wr = [c \in Calls |-> {}]
    /\ out = <<>>

Init ==
    /\ str = <<>> /\ solver = UNKNOWN
    /\ ode \in OdeArgs
    /\ a \in Params
    /\ N \in 1..MaxN
    /\ n \in 1..MaxLen
    /\ h \in StepSizes
    /\ xaddr \in Addresses
    /\ x \in Buffers(N, n)
    /\ x1 = [k \in 0..(n - 1) |-> x[k * N]]
    /\ xpre = x /\ x1pre = x1
    /\ InitCalls

\* ------------------------------------------------------------ macro ODE
ODE_switch ==
    /\ call = "ODE" /\ pc = "switch"
    /\ IF IsCase(ode)
       THEN /\ out' = Append(out, Banner(ode))
            /\ u' = 0
            /\ pc' = "for"
            /\ call' = call
       ELSE /\ call' = "ODE1"
            /\ UNCHANGED <<out, u, pc>>
    /\ UNCHANGED <<args, x, x1, udot, v, evals, steps, rd, wr>>

ODE_for ==
    /\ call = "ODE" /\ pc = "for"
    /\ IF LoopCond(u, N, n)
       THEN /\ pc' = "odefun1"
            /\ steps' = [steps EXCEPT !["ODE"] = Append(@, u \div N)]
            /\ UNCHANGED <<call, u, udot, v>>
       ELSE /\ call' = "ODE1" /\ pc' = "switch"
            /\ u' = 0 /\ udot' = NoScratch /\ v' = Uninit
            /\ steps' = steps
    /\ UNCHANGED <<args, x, x1, evals, rd, wr, out>>

PcOdefun(j) == <<"odefun1", "odefun2", "odefun3", "odefun4">>[j]
PcProbe(j) == <<"none", "v2", "v3", "v4">>[j]

ODE_odefun(j) ==
    /\ call = "ODE" /\ pc = PcOdefun(j)
    /\ udot' = [udot EXCEPT ![j] = odefun(IF j = 1 THEN Vec(x, u, N) ELSE v, N, a)]
    /\ evals' = [evals EXCEPT !["ODE"] = @ + 1]
    /\ rd' = [rd EXCEPT !["ODE"] = IF j = 1 THEN @ \cup {u + i : i \in 0..(N - 1)} ELSE @]
    /\ pc' = IF j < Stages(ode) THEN PcProbe(j + 1) ELSE "u1"
    /\ UNCHANGED <<args, x, x1, call, u, v, steps, wr, out>>

ODE_v(j) ==
    /\ call = "ODE" /\ pc = PcProbe(j)
    /\ v' = [i \in 0..(N - 1) |-> Load(x, u + i) + ProbeStep(ode, j, h) * udot[j - 1][i]]
    /\ rd' = [rd EXCEPT !["ODE"] = @ \cup {u + i : i \in 0..(N - 1)}]
    /\ pc' = PcOdefun(j)
    /\ UNCHANGED <<args, x, x1, call, u, udot, evals, steps, wr, out>>

ODE_u1 ==
    /\ call = "ODE" /\ pc = "u1"
    /\ LET u1 == u + N
       IN  /\ x' = [idx \in DOMAIN x |->
                      IF idx \in {u1 + i : i \in 0..(N - 1)}
                      THEN AddAssign(x[idx],
                                     Rhs(ode, Load(x, idx - N), h,
                                         [j \in 1..4 |-> IF j <= Stages(ode)
                                                         THEN udot[j][idx - u1]
                                                         ELSE 0]))
                      ELSE x[idx]]
           /\ rd' = [rd EXCEPT !["ODE"] = @ \cup {u + i : i \in 0..(N - 1)}]
           /\ wr' = [wr EXCEPT !["ODE"] = @ \cup {u1 + i : i \in 0..(N - 1)}]
    /\ u' = u + N
    /\ pc' = "for"
    /\ UNCHANGED <<args, x1, call, udot, v, evals, steps, out>>

\* ----------------------------------------------------------- macro ODE1
\* odefun(udot,u,...) is taken to store the field at *u in udot, and
\* odefun(udot2,v,...) the field at v, as the prototype of ode.h:87 and the
\* N-dimensional macro have it.
ODE1_switch ==
    /\ call = "ODE1" /\ pc = "switch"
    /\ IF IsCase(ode)
       THEN /\ out' = Append(out, Banner(ode))
            /\ u' = 0
            /\ pc' = "for"
            /\ call' = call
       ELSE /\ call' = "exit"
            /\ UNCHANGED <<out, u, pc>>
    /\ UNCHANGED <<args, x, x1, udot, v, evals, steps, rd, wr>>

ODE1_for ==
    /\ call = "ODE1" /\ pc = "for"
    /\ IF Loop1Cond(u, n)
       THEN /\ pc' = "odefun1"
            /\ steps' = [steps EXCEPT !["ODE1"] = Append(@, u)]
            /\ UNCHANGED <<call, u, udot, v>>
       ELSE /\ call' = "exit" /\ pc' = "switch"
            /\ u' = 0 /\ udot' = NoScratch /\ v' = Uninit
            /\ steps' = steps
    /\ UNCHANGED <<args, x, x1, evals, rd, wr, out>>

ODE1_odefun(j) ==
    /\ call = "ODE1" /\ pc = PcOdefun(j)
    /\ udot' = [udot EXCEPT ![j] = Dbl(ouproc(IF j = 1 THEN Load(x1, u) ELSE v[0], a))]
    /\ evals' = [evals EXCEPT !["ODE1"] = @ + 1]
    /\ rd' = [rd EXCEPT !["ODE1"] = IF j = 1 THEN @ \cup {u} ELSE @]
    /\ pc' = IF j < Stages(ode) THEN PcProbe(j + 1) ELSE "u1"
    /\ UNCHANGED <<args, x, x1, call, u, v, steps, wr, out>>

ODE1_v(j) ==
    /\ call = "ODE1" /\ pc = PcProbe(j)
    /\ v' = Dbl(Load(x1, u) + ProbeStep(ode, j, h) * udot[j - 1][0])
    /\ rd' = [rd EXCEPT !["ODE1"] = @ \cup {u}]
    /\ pc' = PcOdefun(j)
    /\ UNCHANGED <<args, x, x1, call, u, udot, evals, steps, wr, out>>

ODE1_u1 ==
    /\ call = "ODE1" /\ pc = "u1"
    /\ x1' = [idx \in DOMAIN x1 |->
                IF idx = u + 1
                THEN AddAssign(x1[idx],
                               Rhs1(ode, xaddr + sizeofDouble * u, Load(x1, u), h,
                                    [j \in 1..4 |-> IF j <= Stages(ode) THEN udot[j][0]
                                                    ELSE 0]))
                ELSE x1[idx]]
    /\ rd' = [rd EXCEPT !["ODE1"] = IF ode = RKFOUR THEN @ ELSE @ \cup {u}]
    /\ wr' = [wr EXCEPT !["ODE1"] = @ \cup {u + 1}]
    /\ u' = u + 1
    /\ pc' = "for"
    /\ UNCHANGED <<args, x, call, udot, v, evals, steps, out>>

Next ==
    \/ ODE_switch
    \/ ODE_for
    \/ \E j \in 1..4 : ODE_odefun(j)
    \/ \E j \in 2..4 : ODE_v(j)
    \/ ODE_u1
    \/ ODE1_switch
    \/ ODE1_for
    \/ \E j \in 1..4 : ODE1_odefun(j)
    \/ \E j \in 2..4 : ODE1_v(j)
    \/ ODE1_u1

Spec == Init /\ [][Next]_vars
FairSpec == Spec /\ WF_vars(Next)

\* ---------------------------------------------- the registry on its own
\* Every upper/lower-case spelling of a name.
RECURSIVE Variants(_)
Variants(name) ==
    IF name = <<>> THEN {<<>>}
    ELSE {<<c>> \o t : c \in {tolower(Head(name)), toupper(Head(name))},
                       t \in Variants(Tail(name))}

ExtraChars == {50, 52, 32, 120}
AllVariants == UNION {Variants(nm) : nm \in {Euler, Heun, RK4}}
Prefixes == UNION {{SubSeq(s, 1, k) : k \in 0..(Len(s) - 1)} : s \in AllVariants}
Extensions == {s \o <<c>> : s \in AllVariants, c \in ExtraChars}
Strings == AllVariants \cup Prefixes \cup Extensions \cup {bogus, <<>>}

InitParse ==
    /\ str \in Strings /\ solver = UNKNOWN
    /\ ode = UNKNOWN /\ a = 0 /\ N = 1 /\ n = 1 /\ h = 0 /\ xaddr = 8
    /\ x = [i \in 0..0 |-> 0] /\ x1 = x /\ xpre = x /\ x1pre = x
    /\ u = 0 /\ udot = NoScratch /\ v = Uninit
    /\ evals = [c \in Calls |-> 0]
    /\ steps = [c \in Calls |-> <<>>]
    /\ rd = [c \in Calls |-> {}]
    /\ wr = [c \in Calls |-> {}]
    /\ out = <<>>
    /\ call = "str2ode" /\ pc = "switch"

Parse ==
    /\ call = "str2ode"
    /\ solver' = str2ode(str)
    /\ call' = "parsed"
    /\ UNCHANGED <<str, ode, a, N, n, h, x, x1, xaddr, pc, u, udot, v,
                   xpre, x1pre, evals, steps, rd, wr, out>>

NextParse == Parse
SpecParse == InitParse /\ [][NextParse]_vars

\* ================================================================ claims
ODEDone == call \in {"ODE1", "exit"}
ODE1Done == call = "exit"
Schemes == {EULER, HEUN, RKFOUR}

\* C1: after ODE with EULER, every component of slot k+1 holds its pre-call
\* content plus u[i] + h*f(u)[i], u being the final value of slot k: the
\* write-back adds to what the slot held, it does not overwrite it.
C1_EulerAdditive ==
    (ode = EULER /\ ODEDone) =>
        \A k \in 0..(n - 2) : \A i \in 0..(N - 1) :
            x[(k + 1) * N + i] =
                xpre[(k + 1) * N + i] + x[k * N + i]
                    + h * odefun(Vec(x, k * N, N), N, a)[i]

C1_Witness ==
    /\ ode = EULER /\ ODEDone /\ N = 2 /\ n = 3 /\ a = 1 /\ h = 6
    /\ xpre[0] = 1 /\ xpre[N] = 5 /\ xpre[2 * N] = 5
    /\ x[N] = 0 /\ x[2 * N] = 5

\* The reference formulas of Heun and of classical Runge-Kutta 4, computed on
\* whole vectors from the state u alone.
HeunRef(uv) ==
    LET d1 == odefun(uv, N, a)
        d2 == odefun([i \in 0..(N - 1) |-> uv[i] + h * d1[i]], N, a)
    IN  [i \in 0..(N - 1) |-> uv[i] + (h * (d1[i] + d2[i])) \div 2]

RK4Ref(uv) ==
    LET d1 == odefun(uv, N, a)
        d2 == odefun([i \in 0..(N - 1) |-> uv[i] + (h * d1[i]) \div 2], N, a)
        d3 == odefun([i \in 0..(N - 1) |-> uv[i] + (h * d2[i]) \div 2], N, a)
        d4 == odefun([i \in 0..(N - 1) |-> uv[i] + h * d3[i]], N, a)
    IN  [i \in 0..(N - 1) |->
            uv[i] + (h * (d1[i] + 2 * d2[i] + 2 * d3[i] + d4[i])) \div 6]

C2_Step ==
    (call = "ODE" /\ ode \in {HEUN, RKFOUR} /\ pc \notin {"switch", "for"}) =>
        /\ Vec(x', u, N) = Vec(x, u, N)
        /\ pc = "u1" =>
             \A i \in 0..(N - 1) :
                x'[u + N + i] =
                    x[u + N + i]
                        + (IF ode = HEUN THEN HeunRef(Vec(x, u, N))
                                         ELSE RK4Ref(Vec(x, u, N)))[i]

\* C2: in ODE, every Heun step adds u + (h/2)(d1 + d2) and every RK4 step
\* adds u + (h/6)(d1 + 2 d2 + 2 d3 + d4) to slot k+1, the derivatives being
\* those of the reference formulas, each probe built from u; slot k is not
\* modified while its stages are evaluated.
C2_Staging == [][C2_Step]_vars

C2_Witness ==
    /\ ode = RKFOUR /\ call = "ODE" /\ pc = "for" /\ u = 2 * N
    /\ N = 2 /\ a = 1 /\ h = 6
    /\ xpre[0] = 1 /\ xpre[1] = 0 /\ xpre[N] = 5
    /\ x[N] = 36 /\ x[2 * N] = 1116

\* C3: with N = 1 the buffer ODE1 leaves equals the buffer ODE leaves.
C3_ScalarAgrees == (N = 1 /\ ODE1Done) => x1 = x

C4_Inv ==
    /\ wr["ODE"] \subseteq N..(N * n - 1)
    /\ rd["ODE"] \subseteq 0..(N * n - 1)
    /\ wr["ODE1"] \subseteq 1..(n - 1)
    /\ rd["ODE1"] \subseteq 0..(n - 1)
    /\ \A i \in 0..(N - 1) : x[i] = xpre[i]
    /\ x1[0] = x1pre[0]

C4_Step ==
    /\ (call = "ODE" /\ pc \notin {"switch", "for"}) =>
         LET k == steps["ODE"][Len(steps["ODE"])]
         IN  /\ rd'["ODE"] \ rd["ODE"] \subseteq Slot(k, N)
             /\ wr'["ODE"] \ wr["ODE"] \subseteq Slot(k + 1, N)
             /\ \A idx \in DOMAIN x : x'[idx] # x[idx] => idx \in Slot(k + 1, N)
             /\ x1' = x1
    /\ (call = "ODE1" /\ pc \notin {"switch", "for"}) =>
         LET k == steps["ODE1"][Len(steps["ODE1"])]
         IN  /\ rd'["ODE1"] \ rd["ODE1"] \subseteq {k}
             /\ wr'["ODE1"] \ wr["ODE1"] \subseteq {k + 1}
             /\ \A idx \in DOMAIN x1 : x1'[idx] # x1[idx] => idx = k + 1
             /\ x' = x
    /\ pc \in {"switch", "for"} => (x' = x /\ x1' = x1 /\ rd' = rd /\ wr' = wr)

\* C4: ODE and ODE1 write only slots 1..n-1, step k reading slot k and
\* updating slot k+1 in place; slot 0 keeps the caller's values in every
\* state, and no position outside the buffer is read or written.
C4_Frame == []C4_Inv /\ [][C4_Step]_vars

C4_Witness ==
    /\ call = "exit" /\ ode = RKFOUR /\ N = 2 /\ n = 3
    /\ wr["ODE"] = 2..5 /\ rd["ODE"] = 0..3
    /\ wr["ODE1"] = {1, 2} /\ rd["ODE1"] = {0, 1}
    /\ x # xpre

ZeroField == a = 0

\* C5 as stated: with a zero vector field every slot k >= 1 ends with exactly
\* the content it had before the call.
C5_ZeroFieldUnchanged ==
    (ZeroField /\ ode \in Schemes) =>
        /\ ODEDone => \A idx \in DOMAIN x : x[idx] = xpre[idx]
        /\ ODE1Done => \A idx \in DOMAIN x1 : x1[idx] = x1pre[idx]

RECURSIVE SumPre(_, _)
SumPre(k, i) == IF k = 0 THEN xpre[i] ELSE xpre[k * N + i] + SumPre(k - 1, i)

\* C5 as amended: with a zero vector field, ODE leaves slot 0 as it was and
\* every slot k >= 1 with its pre-call content plus the final content of slot
\* k-1, that is with the sum of the pre-call contents of slots 0..k.
C5_ZeroFieldAccumulates ==
    (ZeroField /\ ode \in Schemes /\ ODEDone) =>
        \A k \in 0..(n - 1) : \A i \in 0..(N - 1) : x[k * N + i] = SumPre(k, i)

C5_Witness ==
    /\ ZeroField /\ ode = HEUN /\ ODEDone /\ N = 2 /\ n = 3 /\ h = 6
    /\ xpre[0] = 1 /\ xpre[1] = 0 /\ xpre[N] = 5 /\ xpre[2 * N] = 5
    /\ x[2 * N] = 11 /\ x[2 * N + 1] = 10

\* C6: with n = 1 neither macro takes a step or calls odefun, and both
\* buffers stay as the caller handed them over.
C6_SingleSlotNoOp ==
    n = 1 =>
        /\ x = xpre /\ x1 = x1pre
        /\ \A c \in Calls : evals[c] = 0 /\ steps[c] = <<>> /\ wr[c] = {}

C6_Witness == n = 1 /\ N = 2 /\ ode = RKFOUR /\ call = "exit" /\ xpre[0] = 1 /\ a = 1

\* C7: with UNKNOWN, or any value that is no scheme, ODE and ODE1 call odefun
\* zero times, change no element of the buffer and report nothing.
C7_UnknownNoOp ==
    ode \notin Schemes =>
        /\ x = xpre /\ x1 = x1pre
        /\ \A c \in Calls : evals[c] = 0 /\ steps[c] = <<>> /\ wr[c] = {}
        /\ out = <<>>
        /\ pc = "switch"

C7_Witness ==
    /\ ode = UNKNOWN /\ call = "exit" /\ n = 3 /\ N = 2 /\ a = 1 /\ h = 6
    /\ xpre[0] = 1 /\ xpre[N] = 5

\* C8: str2ode maps every upper/lower-case spelling of "Euler", "Heun", "RK4"
\* to EULER, HEUN, RKFOUR, and every other string to UNKNOWN.
C8_str2ode ==
    call = "parsed" =>
        /\ str \in Variants(Euler) <=> solver = EULER
        /\ str \in Variants(Heun) <=> solver = HEUN
        /\ str \in Variants(RK4) <=> solver = RKFOUR
        /\ str \notin AllVariants <=> solver = UNKNOWN

C8_Witness ==
    /\ call = "parsed"
    /\ \/ str = <<101, 85, 108, 69, 114>> /\ solver = EULER
       \/ str = <<69, 117, 108, 101, 114, 50>> /\ solver = UNKNOWN

\* C9: a call of ODE or ODE1 prints nothing.
C9_NoOutput == out = <<>>

StageCount == IF ode = EULER THEN 1 ELSE IF ode = HEUN THEN 2 ELSE 4
Wrote(c, m) == IF c = "ODE" THEN {idx \in DOMAIN x : idx >= N /\ idx < N * (m + 1)}
                            ELSE 1..m

C10_Inv ==
    \A c \in Calls :
        /\ steps[c] = [m \in 1..Len(steps[c]) |-> m - 1]
        /\ (call = c /\ pc = "for") =>
              /\ evals[c] = StageCount * Len(steps[c])
              /\ wr[c] = Wrote(c, Len(steps[c]))
        /\ (call = c /\ pc \notin {"switch", "for"}) =>
              /\ evals[c] >= StageCount * (Len(steps[c]) - 1)
              /\ evals[c] <= StageCount * Len(steps[c])
              /\ pc = "u1" <=> evals[c] = StageCount * Len(steps[c])
              /\ wr[c] = Wrote(c, Len(steps[c]) - 1)
        /\ ((IF c = "ODE" THEN ODEDone ELSE ODE1Done) /\ ode \in Schemes) =>
              /\ Len(steps[c]) = n - 1
              /\ evals[c] = StageCount * (n - 1)

\* C10: a call visits the time indices 0, 1, ..., n-2 in increasing order,
\* each once, step k+1 starting after the write-back of step k; every step
\* calls odefun 1 (Euler), 2 (Heun) or 4 (RK4) times; and the call ends.
C10_WalkTerminates == []C10_Inv /\ <>(call = "exit")

C10_Witness ==
    /\ call = "exit" /\ ode = RKFOUR /\ n = 3 /\ N = 2
    /\ evals["ODE"] = 8 /\ evals["ODE1"] = 8
    /\ steps["ODE"] = <<0, 1>>
====
